---- MODULE Spec2Model ----
(***************************************************************************)
(* Model of reddit_deleter.py: the token store, the OAuth2 bootstrap       *)
(* (authenticate with its one-shot callback listener), the confirmation    *)
(* gate of main, and the two overwrite-then-delete passes of delete_all.   *)
(*                                                                         *)
(* Python strings are sequences of one-character strings.  The platform    *)
(* (praw and the Reddit API behind it) is a collaborator: every network    *)
(* call either returns or raises, chosen nondeterministically, and is      *)
(* recorded in api_calls in the order the program issues it.                *)
(***************************************************************************)
EXTENDS Integers, Sequences, FiniteSets, TLC

VARIABLES
    pc,                 \* position of the single control thread
    run,                \* number of the current process run (the token file outlives a run)
    env,                \* os.environ: which required variables are set
    tokenFile,          \* reddit_token.json on disk
    refresh_token,      \* authenticate's local refresh_token
    reddit,             \* self.reddit
    username,           \* self.username
    server,             \* the HTTPServer of the callback: auth_code, auth_error
    response,           \* what the operator typed at the prompt
    exit_code,          \* the process's exit status, -1 while it runs
    error_msg,          \* text of the exception that reached main's handler
    api_calls,          \* the network calls issued so far in this run, in order
    request,            \* history: the query of the one callback request
    handled,            \* history: requests the listener has handled in this run
    loaded,             \* history: what _load_refresh_token did in this run
    lastSaved,          \* history: token last written by _save_refresh_token, if the file still holds it
    fileAtStart,        \* history: the token file as the run found it
    comments,           \* the list comments of overwrite_and_delete_comments
    posts,              \* the list posts of overwrite_and_delete_posts
    index,              \* enumerate's index in the running pass
    successful_count,   \* successful_count of each pass
    failed_items,       \* failed_items of each pass
    all_failed_items    \* delete_all's all_failed_items

authVars == <<run, env, tokenFile, refresh_token, reddit, username, server,
              response, request, handled, loaded, lastSaved, fileAtStart>>
passVars == <<comments, posts, index, successful_count, failed_items, all_failed_items>>
vars == <<pc, exit_code, error_msg, api_calls, authVars, passVars>>

(***************************************************************************)
(* Bounds                                                                  *)
(***************************************************************************)
MaxRuns == 2
MaxComments == 2
MaxPosts == 2

(***************************************************************************)
(* Strings                                                                 *)
(***************************************************************************)
Whitespace == {" ", "\t", "\n"}

RECURSIVE lstrip(_)
lstrip(s) == IF s # <<>> /\ Head(s) \in Whitespace THEN lstrip(Tail(s)) ELSE s

RECURSIVE rstrip(_)
rstrip(s) ==
    IF s # <<>> /\ s[Len(s)] \in Whitespace THEN rstrip(SubSeq(s, 1, Len(s) - 1)) ELSE s

strip(s) == rstrip(lstrip(s))

Contains(text, part) ==
    \E i \in 1..(Len(text) - Len(part) + 1) : SubSeq(text, i, i + Len(part) - 1) = part

DELETE == <<"D", "E", "L", "E", "T", "E">>

(***************************************************************************)
(* Python values and the json module, on the token level.  A file's text   *)
(* is a sequence of JSON tokens; a string token carries its escaped body.  *)
(* The grammar covers scalars, the empty array, the empty object and       *)
(* objects of one member with a scalar value; any other token sequence is  *)
(* a JSONDecodeError.                                                      *)
(***************************************************************************)
PyNone == [ty |-> "none", s |-> <<>>]
PyStr(s) == [ty |-> "str", s |-> s]
PyNum(d) == [ty |-> "num", s |-> d]
PyList == [ty |-> "list", s |-> <<>>]
PyDict(members) == [ty |-> "dict", s |-> <<>>, members |-> members]

Truthy(v) ==
    CASE v.ty = "none" -> FALSE
      [] v.ty = "str"  -> v.s # <<>>
      [] v.ty = "num"  -> v.s # <<"0">>
      [] v.ty = "list" -> FALSE
      [] v.ty = "dict" -> v.members # <<>>

Tok(t) == [t |-> t, v |-> <<>>]
StrTok(body) == [t |-> "str", v |-> body]
NumTok(d) == [t |-> "num", v |-> d]

RECURSIVE json_escape(_)
json_escape(s) ==
    IF s = <<>> THEN <<>>
    ELSE IF Head(s) \in {"\"", "\\"} THEN <<"\\", Head(s)>> \o json_escape(Tail(s))
    ELSE <<Head(s)>> \o json_escape(Tail(s))

\* the decoded string, or "invalid" for a body no JSON string can have
RECURSIVE json_unescape(_)
json_unescape(b) ==
    IF b = <<>> THEN [ok |-> TRUE, s |-> <<>>]
    ELSE IF Head(b) = "\"" THEN [ok |-> FALSE, s |-> <<>>]
    ELSE IF Head(b) = "\\" THEN
        IF Len(b) >= 2 /\ b[2] \in {"\"", "\\"} THEN
            LET r == json_unescape(Tail(Tail(b)))
            IN  [ok |-> r.ok, s |-> IF r.ok THEN <<b[2]>> \o r.s ELSE <<>>]
        ELSE [ok |-> FALSE, s |-> <<>>]
    ELSE LET r == json_unescape(Tail(b))
         IN  [ok |-> r.ok, s |-> IF r.ok THEN <<Head(b)>> \o r.s ELSE <<>>]

DecodeError == [exc |-> "JSONDecodeError", value |-> PyNone]
Decoded(v) == [exc |-> "none", value |-> v]

json_scalar(tok) ==
    CASE tok.t = "null" -> Decoded(PyNone)
      [] tok.t = "num"  -> Decoded(PyNum(tok.v))
      [] tok.t = "str"  ->
            LET r == json_unescape(tok.v)
            IN  IF r.ok THEN Decoded(PyStr(r.s)) ELSE DecodeError
      [] OTHER -> DecodeError

json_dump(key, value) ==
    << Tok("{"), StrTok(json_escape(key)), Tok(":"), StrTok(json_escape(value)), Tok("}") >>

json_load(text) ==
    CASE Len(text) = 1 -> json_scalar(text[1])
      [] Len(text) = 2 /\ text[1].t = "[" /\ text[2].t = "]" -> Decoded(PyList)
      [] Len(text) = 2 /\ text[1].t = "{" /\ text[2].t = "}" -> Decoded(PyDict(<<>>))
      [] Len(text) = 5 /\ text[1].t = "{" /\ text[2].t = "str" /\ text[3].t = ":"
                       /\ text[5].t = "}" ->
            LET k == json_scalar(text[2])
                v == json_scalar(text[4])
            IN  IF k.exc = "none" /\ v.exc = "none"
                THEN Decoded(PyDict(<< <<k.value.s, v.value>> >>))
                ELSE DecodeError
      [] OTHER -> DecodeError

dict_get(d, key) ==
    IF \E i \in 1..Len(d.members) : d.members[i][1] = key
    THEN d.members[CHOOSE i \in 1..Len(d.members) : d.members[i][1] = key][2]
    ELSE PyNone

(***************************************************************************)
(* Token Store                                                             *)
(***************************************************************************)
KEY == <<"r", "e", "f", "r", "e", "s", "h", "_", "t", "o", "k", "e", "n">>

NoFile == [exists |-> FALSE, text |-> <<>>]
File(text) == [exists |-> TRUE, text |-> text]

_save_refresh_token(token) == File(json_dump(KEY, token))

Returned(v) == [exc |-> "none", value |-> v]
Raised(e) == [exc |-> e, value |-> PyNone]

_load_refresh_token(file) ==
    IF file.exists
    THEN LET data == json_load(file.text)
         IN  IF data.exc = "JSONDecodeError" THEN Returned(PyNone)
             ELSE IF data.value.ty = "dict" THEN Returned(dict_get(data.value, KEY))
             ELSE Raised("AttributeError")
    ELSE Returned(PyNone)

(***************************************************************************)
(* The platform                                                            *)
(***************************************************************************)
\* refresh tokens the platform hands out
Tokens == { <<"a">>, <<"a", "\"">>, <<"\\", "b">> }

\* texts of the exceptions praw raises; the text of a failed edit is only printed
ErrorTexts == { <<"403 Forbidden">>, <<"timed out">> }
EditErrorTexts == { <<"archived">> }

Exception(text) == [msg |-> text]
str(e) == e.msg

Usernames == {"alice"}

\* a completed network call: what it was, on what, and the text of the exception it raised
OK == <<>>
Call(op, target, err) == [op |-> op, target |-> target, ok |-> err = OK, err |-> err]

Issued(op, target) == \E i \in 1..Len(api_calls) : api_calls[i].op = op /\ api_calls[i].target = target
Succeeded(op, target) ==
    \E i \in 1..Len(api_calls) :
        api_calls[i].op = op /\ api_calls[i].target = target /\ api_calls[i].ok
Failed(op, target) ==
    \E i \in 1..Len(api_calls) :
        api_calls[i].op = op /\ api_calls[i].target = target /\ ~api_calls[i].ok
Count(op, target) ==
    Cardinality({i \in 1..Len(api_calls) : api_calls[i].op = op /\ api_calls[i].target = target})

(***************************************************************************)
(* What a run can find on disk and receive from outside                    *)
(***************************************************************************)
InitialFiles ==
    { NoFile,
      File(<<>>),
      File(<< Tok("["), Tok("]") >>),
      File(<< Tok("{"), Tok("}") >>),
      File(<< NumTok(<<"5">>) >>),
      File(<< Tok("null") >>),
      File(<< StrTok(<<"a">>) >>),
      File(<< Tok("{"), StrTok(KEY), Tok(":") >>),
      File(<< Tok("{"), StrTok(<<"o">>), Tok(":"), StrTok(<<"a">>), Tok("}") >>),
      File(<< Tok("{"), StrTok(KEY), Tok(":"), NumTok(<<"5">>), Tok("}") >>),
      File(<< Tok("{"), StrTok(KEY), Tok(":"), StrTok(<<"a", "\"">>), Tok("}") >>),
      File(json_dump(KEY, <<>>)),
      File(json_dump(KEY, <<"a">>)) }

\* queries of the callback request: up to two key=value pairs
QueryKeys == {"code", "error"}
QueryValues == { <<>>, <<"x">>, <<"y">> }
QueryPairs == { <<k, v>> : k \in QueryKeys, v \in QueryValues }
Requests == { <<>> } \cup { <<p>> : p \in QueryPairs } \cup { <<p, q>> : p \in QueryPairs, q \in QueryPairs }

\* lines the operator may type
Inputs ==
    { DELETE,
      <<"d", "e", "l", "e", "t", "e">>,
      DELETE \o <<" ">>,
      <<" ">> \o DELETE,
      <<"\t">> \o DELETE \o <<" ", " ">>,
      <<>>,
      <<" ">>,
      DELETE \o <<"D">>,
      <<"D", "E", "L", " ", "E", "T", "E">>,
      <<"y">> }

(***************************************************************************)
(* OAuthCallbackHandler                                                    *)
(***************************************************************************)
\* urllib.parse.parse_qs: the non-blank values of key, in order of appearance
RECURSIVE parse_qs(_, _)
parse_qs(query, key) ==
    IF query = <<>> THEN <<>>
    ELSE IF Head(query)[1] = key /\ Head(query)[2] # <<>>
         THEN <<Head(query)[2]>> \o parse_qs(Tail(query), key)
         ELSE parse_qs(Tail(query), key)

NewServer == [auth_code |-> PyNone, auth_error |-> PyNone]

do_GET(srv, query) ==
    IF parse_qs(query, "code") # <<>>
    THEN [srv EXCEPT !.auth_code = PyStr(parse_qs(query, "code")[1])]
    ELSE IF parse_qs(query, "error") # <<>>
         THEN [srv EXCEPT !.auth_error = PyStr(parse_qs(query, "error")[1])]
         ELSE srv

(***************************************************************************)
(* main and authenticate                                                   *)
(***************************************************************************)
NoReddit == [mode |-> "none", token |-> PyNone]

\* an exception reaches main's handler: print, traceback, sys.exit(1)
Abort(msg) ==
    /\ pc' = "exit"
    /\ exit_code' = 1
    /\ error_msg' = msg

\* lines 136-174: the OAuth instance and the listener are set up
BrowserAuth ==
    /\ reddit' = [mode |-> "oauth", token |-> PyNone]
    /\ server' = NewServer
    /\ pc' = "listen"

InitAuth ==
    /\ pc = "main"
    /\ run = 1
    /\ env \in [client_id : BOOLEAN, client_secret : BOOLEAN]
    /\ tokenFile \in InitialFiles
    /\ fileAtStart = tokenFile
    /\ lastSaved = PyNone
    /\ loaded = [called |-> FALSE, exc |-> "none", value |-> PyNone]
    /\ refresh_token = PyNone
    /\ reddit = NoReddit
    /\ username = ""
    /\ server = NewServer
    /\ request = <<>>
    /\ handled = 0
    /\ response = PyNone
    /\ exit_code = -1
    /\ error_msg = <<>>
    /\ api_calls = <<>>
    /\ comments = <<>>
    /\ posts = <<>>
    /\ index = 0
    /\ successful_count = [comment |-> 0, post |-> 0]
    /\ failed_items = [comment |-> <<>>, post |-> <<>>]
    /\ all_failed_items = <<>>

CheckConfig ==
    /\ pc = "main"
    /\ IF env.client_id /\ env.client_secret
       THEN /\ pc' = "authenticate"
            /\ UNCHANGED <<exit_code, error_msg>>
       ELSE /\ pc' = "exit"
            /\ exit_code' = 1
            /\ UNCHANGED error_msg
    /\ UNCHANGED <<api_calls, authVars, passVars>>

LoadToken ==
    /\ pc = "authenticate"
    /\ LET r == _load_refresh_token(tokenFile)
       IN  /\ loaded' = [called |-> TRUE, exc |-> r.exc, value |-> r.value]
           /\ IF r.exc # "none"
              THEN /\ Abort(<<r.exc>>)
                   /\ UNCHANGED <<refresh_token, reddit, server>>
              ELSE /\ refresh_token' = r.value
                   /\ UNCHANGED <<exit_code, error_msg>>
                   /\ IF Truthy(r.value)
                      THEN /\ pc' = "validate"
                           /\ UNCHANGED <<reddit, server>>
                      ELSE BrowserAuth
    /\ UNCHANGED <<run, env, tokenFile, username, response, request, handled,
                   lastSaved, fileAtStart, api_calls, passVars>>

ValidateToken_keepFile ==
    /\ pc = "validate"
    /\ \E e \in (IF refresh_token.ty = "str" THEN {OK} ELSE {}) \cup ErrorTexts :
        /\ api_calls' = Append(api_calls, Call("me", <<>>, e))
        /\ IF e = OK
           THEN /\ reddit' = [mode |-> "refresh", token |-> refresh_token]
                /\ \E u \in Usernames : username' = u
                /\ pc' = "prompt"
                /\ UNCHANGED <<server, tokenFile, lastSaved>>
           ELSE /\ BrowserAuth
                /\ UNCHANGED <<username, tokenFile, lastSaved>>
    /\ UNCHANGED <<run, env, refresh_token, response, request, handled, loaded,
                   fileAtStart, exit_code, error_msg, passVars>>

ValidateToken ==
    /\ pc = "validate"
    /\ \E e \in (IF refresh_token.ty = "str" THEN {OK} ELSE {}) \cup ErrorTexts :
        /\ api_calls' = Append(api_calls, Call("me", <<>>, e))
        /\ IF e = OK
           THEN /\ reddit' = [mode |-> "refresh", token |-> refresh_token]
                /\ \E u \in Usernames : username' = u
                /\ pc' = "prompt"
                /\ UNCHANGED <<server, tokenFile, lastSaved>>
           ELSE /\ tokenFile' = NoFile
                /\ lastSaved' = PyNone
                /\ BrowserAuth
                /\ UNCHANGED username
    /\ UNCHANGED <<run, env, refresh_token, response, request, handled, loaded,
                   fileAtStart, exit_code, error_msg, passVars>>

HandleRequest_ignoreError ==
    /\ pc = "listen"
    /\ \E query \in Requests :
        /\ request' = query
        /\ server' = do_GET(server, query)
        /\ handled' = handled + 1
        /\ IF ~Truthy(server'.auth_code)
           THEN Abort(<<"No authorization code received">>)
           ELSE /\ pc' = "exchange"
                /\ UNCHANGED <<exit_code, error_msg>>
    /\ UNCHANGED <<run, env, tokenFile, refresh_token, reddit, username, response,
                   loaded, lastSaved, fileAtStart, api_calls, passVars>>

HandleRequest ==
    /\ pc = "listen"
    /\ \E query \in Requests :
        /\ request' = query
        /\ server' = do_GET(server, query)
        /\ handled' = handled + 1
        /\ IF Truthy(server'.auth_error)
           THEN Abort(<<"Authentication failed: ">> \o server'.auth_error.s)
           ELSE IF ~Truthy(server'.auth_code)
           THEN Abort(<<"No authorization code received">>)
           ELSE /\ pc' = "exchange"
                /\ UNCHANGED <<exit_code, error_msg>>
    /\ UNCHANGED <<run, env, tokenFile, refresh_token, reddit, username, response,
                   loaded, lastSaved, fileAtStart, api_calls, passVars>>

\* lines 186-189: authorize, then _save_refresh_token
ExchangeCode ==
    /\ pc = "exchange"
    /\ \/ \E e \in ErrorTexts :
            /\ api_calls' = Append(api_calls, Call("authorize", server.auth_code.s, e))
            /\ Abort(str(Exception(e)))
            /\ UNCHANGED <<refresh_token, reddit, tokenFile, lastSaved>>
       \/ \E t \in Tokens :
            /\ api_calls' = Append(api_calls, Call("authorize", server.auth_code.s, OK))
            /\ refresh_token' = PyStr(t)
            /\ reddit' = [mode |-> "oauth", token |-> PyStr(t)]
            /\ tokenFile' = _save_refresh_token(t)
            /\ lastSaved' = PyStr(t)
            /\ pc' = "get_username"
            /\ UNCHANGED <<exit_code, error_msg>>
    /\ UNCHANGED <<run, env, username, server, response, request, handled, loaded,
                   fileAtStart, passVars>>

\* line 192
GetUsername ==
    /\ pc = "get_username"
    /\ \/ \E e \in ErrorTexts :
            /\ api_calls' = Append(api_calls, Call("me", <<>>, e))
            /\ Abort(str(Exception(e)))
            /\ UNCHANGED username
       \/ \E u \in Usernames :
            /\ api_calls' = Append(api_calls, Call("me", <<>>, OK))
            /\ username' = u
            /\ pc' = "prompt"
            /\ UNCHANGED <<exit_code, error_msg>>
    /\ UNCHANGED <<run, env, tokenFile, refresh_token, reddit, server, response, request,
                   handled, loaded, lastSaved, fileAtStart, passVars>>

Confirmed_noStrip(r) == r = DELETE

Confirmed(r) == strip(r) = DELETE

\* lines 379-385; sys.exit(0) raises SystemExit, which main's handler lets through
Prompt ==
    /\ pc = "prompt"
    /\ \E r \in Inputs :
        /\ response' = PyStr(r)
        /\ IF Confirmed(r)
           THEN /\ pc' = "delete_all"
                /\ UNCHANGED exit_code
           ELSE /\ pc' = "exit"
                /\ exit_code' = 0
    /\ UNCHANGED <<run, env, tokenFile, refresh_token, reddit, username, server, request,
                   handled, loaded, lastSaved, fileAtStart, error_msg, api_calls, passVars>>

\* the program is started again; only the token file is carried over
NewRun ==
    /\ pc = "exit"
    /\ run < MaxRuns
    /\ run' = run + 1
    /\ pc' = "main"
    /\ fileAtStart' = tokenFile
    /\ loaded' = [called |-> FALSE, exc |-> "none", value |-> PyNone]
    /\ refresh_token' = PyNone
    /\ reddit' = NoReddit
    /\ username' = ""
    /\ server' = NewServer
    /\ request' = <<>>
    /\ handled' = 0
    /\ response' = PyNone
    /\ exit_code' = -1
    /\ error_msg' = <<>>
    /\ api_calls' = <<>>
    /\ UNCHANGED <<env, tokenFile, lastSaved, passVars>>

(***************************************************************************)
(* delete_all: the comment pass, then the post pass                        *)
(***************************************************************************)
CommentIds == << <<"c1">>, <<"c2">>, <<"c3">>, <<"c4">> >>
PostIds == << <<"p1">>, <<"p2">>, <<"p3">>, <<"p4">> >>

CommentLists == { [i \in 1..n |-> [id |-> CommentIds[i], is_self |-> FALSE]] : n \in 0..MaxComments }
PostLists ==
    UNION { { [i \in 1..n |-> [id |-> PostIds[i], is_self |-> f[i]]] : f \in [1..n -> BOOLEAN] }
            : n \in 0..MaxPosts }

\* the state in which main calls delete_all: authenticated from the stored token, DELETE typed
DeleteAllEntry ==
    /\ pc = "delete_all"
    /\ run = 1
    /\ env = [client_id |-> TRUE, client_secret |-> TRUE]
    /\ tokenFile = File(json_dump(KEY, <<"a">>))
    /\ fileAtStart = tokenFile
    /\ lastSaved = PyNone
    /\ loaded = [called |-> TRUE, exc |-> "none", value |-> PyStr(<<"a">>)]
    /\ refresh_token = PyStr(<<"a">>)
    /\ reddit = [mode |-> "refresh", token |-> PyStr(<<"a">>)]
    /\ username = "alice"
    /\ server = NewServer
    /\ request = <<>>
    /\ handled = 0
    /\ response = PyStr(DELETE)
    /\ exit_code = -1
    /\ error_msg = <<>>
    /\ api_calls = << Call("me", <<>>, OK) >>

InitRun ==
    /\ DeleteAllEntry
    /\ comments = <<>>
    /\ posts = <<>>
    /\ index = 0
    /\ successful_count = [comment |-> 0, post |-> 0]
    /\ failed_items = [comment |-> <<>>, post |-> <<>>]
    /\ all_failed_items = <<>>

\* lines 318 and 322: the pass's failures, tagged with the item type
RECURSIVE Tagged(_, _)
Tagged(kind, failures) ==
    IF failures = <<>> THEN <<>>
    ELSE << <<kind, Head(failures)[1], Head(failures)[2]>> >> \o Tagged(kind, Tail(failures))

RecordFailure_lost(failures, id, e) == failures

\* lines 235-237 and 289-291
RecordFailure(failures, id, e) == Append(failures, <<id, str(e)>>)

CommentStep_noOverwrite(comment) == "comment_delete"

\* every comment is overwritten first (lines 219-221)
CommentStep(comment) == "comment_edit"

PostStep_alwaysEdit(post) == "post_edit"

\* only a self post is overwritten (lines 270-280)
PostStep(post) == IF post.is_self THEN "post_edit" ELSE "post_delete"

\* the post pass returns; delete_all prints the summary and main returns
FinishPosts(failures) ==
    /\ all_failed_items' = all_failed_items \o Tagged("post", failures)
    /\ index' = 0
    /\ pc' = "exit"
    /\ exit_code' = 0
    /\ UNCHANGED error_msg

\* the comment pass returns to delete_all, which goes on to the post pass
FinishComments(failures) ==
    /\ all_failed_items' = all_failed_items \o Tagged("comment", failures)
    /\ index' = 0
    /\ pc' = "fetch_posts"
    /\ UNCHANGED <<exit_code, error_msg>>

\* the for loop moves to the next comment, or ends
NextComment(failures) ==
    IF index < Len(comments)
    THEN /\ index' = index + 1
         /\ pc' = CommentStep(comments[index + 1])
         /\ UNCHANGED <<all_failed_items, exit_code, error_msg>>
    ELSE FinishComments(failures)

NextPost(failures) ==
    IF index < Len(posts)
    THEN /\ index' = index + 1
         /\ pc' = PostStep(posts[index + 1])
         /\ UNCHANGED <<all_failed_items, exit_code, error_msg>>
    ELSE FinishPosts(failures)

FetchComments ==
    /\ pc = "delete_all"
    /\ \/ \E e \in ErrorTexts :
            /\ api_calls' = Append(api_calls, Call("list_comments", <<>>, e))
            /\ Abort(str(Exception(e)))
            /\ UNCHANGED <<comments, index, all_failed_items>>
       \/ \E cs \in CommentLists :
            /\ api_calls' = Append(api_calls, Call("list_comments", <<>>, OK))
            /\ comments' = cs
            /\ IF cs = <<>>
               THEN FinishComments(<<>>)
               ELSE /\ index' = 1
                    /\ pc' = CommentStep(cs[1])
                    /\ UNCHANGED <<all_failed_items, exit_code, error_msg>>
    /\ UNCHANGED <<authVars, posts, successful_count, failed_items>>

OverwriteComment_abortItem ==
    /\ pc = "comment_edit"
    /\ \E e \in {OK} \cup EditErrorTexts :
        /\ api_calls' = Append(api_calls, Call("edit", comments[index].id, e))
        /\ IF e = OK
           THEN /\ pc' = "comment_delete"
                /\ UNCHANGED <<failed_items, index, all_failed_items, exit_code, error_msg>>
           ELSE /\ failed_items' = [failed_items EXCEPT
                      !.comment = RecordFailure(@, comments[index].id, Exception(e))]
                /\ NextComment(failed_items'.comment)
    /\ UNCHANGED <<authVars, comments, posts, successful_count>>

\* lines 219-226: the inner try; a failed edit is printed and the delete follows
OverwriteComment ==
    /\ pc = "comment_edit"
    /\ \E e \in {OK} \cup EditErrorTexts :
        /\ api_calls' = Append(api_calls, Call("edit", comments[index].id, e))
        /\ pc' = "comment_delete"
    /\ UNCHANGED <<authVars, passVars, exit_code, error_msg>>

DeleteComment_break ==
    /\ pc = "comment_delete"
    /\ \/ /\ api_calls' = Append(api_calls, Call("delete", comments[index].id, OK))
          /\ successful_count' = [successful_count EXCEPT !.comment = @ + 1]
          /\ UNCHANGED failed_items
          /\ NextComment(failed_items.comment)
       \/ \E e \in ErrorTexts :
          /\ api_calls' = Append(api_calls, Call("delete", comments[index].id, e))
          /\ failed_items' = [failed_items EXCEPT
                !.comment = RecordFailure(@, comments[index].id, Exception(e))]
          /\ UNCHANGED successful_count
          /\ FinishComments(failed_items'.comment)
    /\ UNCHANGED <<authVars, comments, posts>>

\* lines 228-238, and the return at 240-244 after the last comment
DeleteComment ==
    /\ pc = "comment_delete"
    /\ \/ /\ api_calls' = Append(api_calls, Call("delete", comments[index].id, OK))
          /\ successful_count' = [successful_count EXCEPT !.comment = @ + 1]
          /\ UNCHANGED failed_items
          /\ NextComment(failed_items.comment)
       \/ \E e \in ErrorTexts :
          /\ api_calls' = Append(api_calls, Call("delete", comments[index].id, e))
          /\ failed_items' = [failed_items EXCEPT
                !.comment = RecordFailure(@, comments[index].id, Exception(e))]
          /\ UNCHANGED successful_count
          /\ NextComment(failed_items'.comment)
    /\ UNCHANGED <<authVars, comments, posts>>

FetchPosts ==
    /\ pc = "fetch_posts"
    /\ \/ \E e \in ErrorTexts :
            /\ api_calls' = Append(api_calls, Call("list_posts", <<>>, e))
            /\ Abort(str(Exception(e)))
            /\ UNCHANGED <<posts, index, all_failed_items>>
       \/ \E ps \in PostLists :
            /\ api_calls' = Append(api_calls, Call("list_posts", <<>>, OK))
            /\ posts' = ps
            /\ IF ps = <<>>
               THEN FinishPosts(<<>>)
               ELSE /\ index' = 1
                    /\ pc' = PostStep(ps[1])
                    /\ UNCHANGED <<all_failed_items, exit_code, error_msg>>
    /\ UNCHANGED <<authVars, comments, successful_count, failed_items>>

\* lines 271-278
OverwritePost ==
    /\ pc = "post_edit"
    /\ \E e \in {OK} \cup EditErrorTexts :
        /\ api_calls' = Append(api_calls, Call("edit", posts[index].id, e))
        /\ pc' = "post_delete"
    /\ UNCHANGED <<authVars, passVars, exit_code, error_msg>>

DeletePost_propagate ==
    /\ pc = "post_delete"
    /\ \/ /\ api_calls' = Append(api_calls, Call("delete", posts[index].id, OK))
          /\ successful_count' = [successful_count EXCEPT !.post = @ + 1]
          /\ UNCHANGED failed_items
          /\ NextPost(failed_items.post)
       \/ \E e \in ErrorTexts :
          /\ api_calls' = Append(api_calls, Call("delete", posts[index].id, e))
          /\ Abort(str(Exception(e)))
          /\ UNCHANGED <<successful_count, failed_items, index, all_failed_items>>
    /\ UNCHANGED <<authVars, comments, posts>>

\* lines 282-292, and the return at 294-298 after the last post
DeletePost ==
    /\ pc = "post_delete"
    /\ \/ /\ api_calls' = Append(api_calls, Call("delete", posts[index].id, OK))
          /\ successful_count' = [successful_count EXCEPT !.post = @ + 1]
          /\ UNCHANGED failed_items
          /\ NextPost(failed_items.post)
       \/ \E e \in ErrorTexts :
          /\ api_calls' = Append(api_calls, Call("delete", posts[index].id, e))
          /\ failed_items' = [failed_items EXCEPT
                !.post = RecordFailure(@, posts[index].id, Exception(e))]
          /\ UNCHANGED successful_count
          /\ NextPost(failed_items'.post)
    /\ UNCHANGED <<authVars, comments, posts>>

NextRun ==
    \/ FetchComments
    \/ OverwriteComment
    \/ DeleteComment
    \/ FetchPosts
    \/ OverwritePost
    \/ DeletePost

SpecRun == InitRun /\ [][NextRun]_vars

(***************************************************************************)
(* Vocabulary of the properties                                            *)
(***************************************************************************)
Items(kind) == IF kind = "comment" THEN comments ELSE posts
Kinds == {"comment", "post"}

\* the pass over kind has listed its items and left its loop
PassDone(kind) ==
    IF kind = "comment"
    THEN Succeeded("list_comments", <<>>) /\ pc \notin {"comment_edit", "comment_delete"}
    ELSE Succeeded("list_posts", <<>>) /\ pc \notin {"post_edit", "post_delete"}

PassRunning(kind) ==
    IF kind = "comment" THEN pc \in {"comment_edit", "comment_delete"}
    ELSE pc \in {"post_edit", "post_delete"}

Editable(kind, item) == kind = "comment" \/ item.is_self

\* positions in api_calls of the calls op on target
CallsAt(op, target) ==
    {k \in 1..Len(api_calls) : api_calls[k].op = op /\ api_calls[k].target = target}

FailureIds(failures) == [j \in 1..Len(failures) |-> failures[j][1]]

RECURSIVE IdsWhoseDeleteFailed(_)
IdsWhoseDeleteFailed(items) ==
    IF items = <<>> THEN <<>>
    ELSE (IF Failed("delete", Head(items).id) THEN <<Head(items).id>> ELSE <<>>)
         \o IdsWhoseDeleteFailed(Tail(items))

(***************************************************************************)
(* C1: in both passes, a delete call on an editable item (a comment, a     *)
(* self post) is issued only after an edit call on the same item has       *)
(* returned or raised.                                                     *)
(***************************************************************************)
C1_OverwriteAttemptedBeforeDelete ==
    \A kind \in Kinds : \A i \in 1..Len(Items(kind)) :
        LET item == Items(kind)[i]
        IN  Editable(kind, item) =>
              /\ \A k \in CallsAt("delete", item.id) :
                    \E j \in CallsAt("edit", item.id) : j < k
              /\ (PassRunning(kind) /\ index = i /\ pc \in {"comment_delete", "post_delete"})
                    => CallsAt("edit", item.id) # {}

\* a comment and a self post have been deleted, one of them after its edit raised
C1_Witness ==
    /\ \E i \in 1..Len(comments) :
          Failed("edit", comments[i].id) /\ Issued("delete", comments[i].id)
    /\ \E i \in 1..Len(posts) :
          posts[i].is_self /\ Succeeded("edit", posts[i].id) /\ Issued("delete", posts[i].id)

(***************************************************************************)
(* C2: when a pass has left its loop, successful_count + len(failed_items) *)
(* is the number of items, every item is either counted as successful      *)
(* (its delete returned) or listed in failed_items (its delete raised),    *)
(* never both, and failed_items lists the failed items in input order;     *)
(* while the loop runs the two together account for the items done so far. *)
(***************************************************************************)
C2_OneOutcomePerItem ==
    \A kind \in Kinds :
        LET items == Items(kind)
            done  == {i \in 1..Len(items) : Succeeded("delete", items[i].id)}
            lost  == {i \in 1..Len(items) : Failed("delete", items[i].id)}
        IN  /\ PassRunning(kind) =>
                successful_count[kind] + Len(failed_items[kind]) = index - 1
            /\ PassDone(kind) =>
                /\ successful_count[kind] + Len(failed_items[kind]) = Len(items)
                /\ successful_count[kind] = Cardinality(done)
                /\ done \cap lost = {}
                /\ done \cup lost = 1..Len(items)
                /\ FailureIds(failed_items[kind]) = IdsWhoseDeleteFailed(items)

\* a finished comment pass of two comments, the first failed and the second deleted
C2_Witness ==
    /\ PassDone("comment")
    /\ Len(comments) = 2
    /\ Failed("delete", comments[1].id)
    /\ Succeeded("delete", comments[2].id)
    /\ PassDone("post")
    /\ Len(posts) = 2
    /\ Len(failed_items.post) = 1

(***************************************************************************)
(* C4: an item whose edit call raised gets exactly one delete call: the    *)
(* program is at the item's delete step until the call is issued, and      *)
(* issues no second one; the edit itself is not retried.                   *)
(***************************************************************************)
C4_DeleteAfterFailedEdit ==
    \A kind \in Kinds : \A i \in 1..Len(Items(kind)) :
        LET id == Items(kind)[i].id
        IN  Failed("edit", id) =>
              /\ Count("edit", id) = 1
              /\ Count("delete", id) <= 1
              /\ Count("delete", id) = 0 =>
                    /\ index = i
                    /\ pc = (IF kind = "comment" THEN "comment_delete" ELSE "post_delete")

\* a comment and a post whose edit raised have each had their one delete call
C4_Witness ==
    /\ \E i \in 1..Len(comments) :
          Failed("edit", comments[i].id) /\ Count("delete", comments[i].id) = 1
    /\ \E i \in 1..Len(posts) :
          Failed("edit", posts[i].id) /\ Count("delete", posts[i].id) = 1

(***************************************************************************)
(* C5: an item whose delete call raised is listed in failed_items with the *)
(* text of the error, no call is issued on it afterwards, and the loop     *)
(* goes on: the pass is at a later item or has returned, and once it has   *)
(* returned every later item has had its delete call.                      *)
(***************************************************************************)
C5_FailedDeleteIsRecordedAndSkipped ==
    \A kind \in Kinds : \A i \in 1..Len(Items(kind)) :
        LET items == Items(kind)
            id == items[i].id
        IN  \A k \in CallsAt("delete", id) :
              ~api_calls[k].ok =>
                /\ \E j \in 1..Len(failed_items[kind]) :
                      /\ failed_items[kind][j][1] = id
                      /\ Contains(failed_items[kind][j][2], api_calls[k].err)
                /\ \A m \in (k + 1)..Len(api_calls) : api_calls[m].target # id
                /\ \/ PassRunning(kind) /\ index > i
                   \/ PassDone(kind)
                /\ PassDone(kind) =>
                      \A n \in (i + 1)..Len(items) : Count("delete", items[n].id) = 1

\* the delete of the first comment raised and the second comment was processed after it
C5_Witness ==
    /\ Len(comments) = 2
    /\ Failed("delete", comments[1].id)
    /\ Issued("edit", comments[2].id)
    /\ Issued("delete", comments[2].id)
    /\ \E i \in 1..Len(posts) : Failed("delete", posts[i].id) /\ i < Len(posts) /\ PassDone("post")

(***************************************************************************)
(* C6: no edit call is ever issued on a link post (is_self false); the     *)
(* only call issued on it is one delete.                                   *)
(***************************************************************************)
C6_LinkPostIsOnlyDeleted ==
    \A i \in 1..Len(posts) :
        ~posts[i].is_self =>
            /\ \A k \in 1..Len(api_calls) :
                  api_calls[k].target = posts[i].id => api_calls[k].op = "delete"
            /\ Count("delete", posts[i].id) <= 1
            /\ (PassDone("post") \/ index > i) => Count("delete", posts[i].id) = 1

\* a link post has been deleted next to a self post that was edited
C6_Witness ==
    \E i, j \in 1..Len(posts) :
        /\ ~posts[i].is_self
        /\ Count("delete", posts[i].id) = 1
        /\ posts[j].is_self
        /\ Issued("edit", posts[j].id)

(***************************************************************************)
(* C8 as stated: after authentication and confirmation no error of the     *)
(* redaction pass ends the run, every such error is recorded as Failed,    *)
(* and the post pass always runs after the comment pass.                   *)
(***************************************************************************)
C8_Original ==
    pc = "exit" =>
        /\ exit_code = 0
        /\ Issued("list_posts", <<>>)
        /\ \A k \in 1..Len(api_calls) :
              ~api_calls[k].ok =>
                 \E j \in 1..Len(all_failed_items) : all_failed_items[j][2] = api_calls[k].target

(***************************************************************************)
(* C8 amended: no error raised by an edit or a delete call on an item ends *)
(* the pass or the run: the run ends with exit code 1 only when a listing  *)
(* call raised; a raised delete is recorded in the pass's failed_items and *)
(* reaches all_failed_items with the item type when the pass returns; a    *)
(* raised edit is recorded nowhere; and the post pass starts once the      *)
(* comment pass has returned.                                              *)
(***************************************************************************)
C8_ItemErrorsAreContained ==
    /\ (pc = "exit" /\ exit_code = 1) =>
          /\ api_calls[Len(api_calls)].op \in {"list_comments", "list_posts"}
          /\ ~api_calls[Len(api_calls)].ok
          /\ error_msg = api_calls[Len(api_calls)].err
    /\ PassDone("comment") => (pc = "fetch_posts" \/ Issued("list_posts", <<>>))
    /\ \A k \in CallsAt("list_posts", <<>>) :
          \A i \in 1..Len(comments) : \A j \in CallsAt("delete", comments[i].id) : j < k
    /\ (pc = "exit" /\ exit_code = 0) =>
          /\ PassDone("comment") /\ PassDone("post")
          /\ all_failed_items =
                Tagged("comment", failed_items.comment) \o Tagged("post", failed_items.post)
          /\ \A kind \in Kinds : \A i \in 1..Len(Items(kind)) :
                LET id == Items(kind)[i].id
                IN  /\ Count("delete", id) = 1
                    /\ Failed("delete", id) <=>
                          \E j \in 1..Len(all_failed_items) :
                              all_failed_items[j][1] = kind /\ all_failed_items[j][2] = id

\* a run that ended normally although an edit and a delete raised in each pass
C8_Witness ==
    /\ pc = "exit"
    /\ exit_code = 0
    /\ \E i \in 1..Len(comments) : Failed("edit", comments[i].id)
    /\ \E i \in 1..Len(comments) : Failed("delete", comments[i].id)
    /\ \E i \in 1..Len(posts) : Failed("edit", posts[i].id)
    /\ \E i \in 1..Len(posts) : Failed("delete", posts[i].id)

(***************************************************************************)
(* Vocabulary of the properties about main and authenticate                *)
(***************************************************************************)
\* the stored token was tried: the run's first network call is the identity check
ValidationFailed == api_calls # <<>> /\ api_calls[1].op = "me" /\ ~api_calls[1].ok
ValidationSucceeded == api_calls # <<>> /\ api_calls[1].op = "me" /\ api_calls[1].ok

Authenticated == username # ""
Exchanged == \E k \in 1..Len(api_calls) : api_calls[k].op = "authorize" /\ api_calls[k].ok
ExchangeTried == \E k \in 1..Len(api_calls) : api_calls[k].op = "authorize"
OnlyAuthenticationCalls == \A k \in 1..Len(api_calls) : api_calls[k].op \in {"me", "authorize"}

\* this run has not written the token file
FileNotWritten == tokenFile = (IF ValidationFailed THEN NoFile ELSE fileAtStart)

Answered == response # PyNone
Proceeded == pc = "delete_all" \/ Issued("list_comments", <<>>)
Cancelled == pc = "exit" /\ exit_code = 0

NonBlank(key) == {i \in 1..Len(request) : request[i][1] = key /\ request[i][2] # <<>>}
First(key) == request[CHOOSE i \in NonBlank(key) : \A j \in NonBlank(key) : i <= j][2]

(***************************************************************************)
(* C3 as stated: DELETE (after trimming) proceeds to delete_all; any other *)
(* input exits with code 0 and the run has made no API call.               *)
(***************************************************************************)
C3_Original ==
    Answered =>
        /\ strip(response.s) = DELETE => Proceeded
        /\ strip(response.s) # DELETE => (Cancelled /\ api_calls = <<>>)

(***************************************************************************)
(* C3 amended: an input that is DELETE after trimming (so also " DELETE"   *)
(* and "DELETE ") proceeds to delete_all; any other input exits with code  *)
(* 0 and no listing, edit or delete call is made, the run's only API calls *)
(* being those authenticate made before the prompt; no listing call is     *)
(* ever made without that confirmation.                                    *)
(***************************************************************************)
C3_ConfirmationGate ==
    /\ Answered =>
        /\ strip(response.s) = DELETE => (Proceeded /\ ~Cancelled)
        /\ strip(response.s) # DELETE => (Cancelled /\ ~Proceeded /\ OnlyAuthenticationCalls)
    /\ ~Answered => (OnlyAuthenticationCalls /\ pc # "delete_all")

\* DELETE typed with surrounding whitespace, and delete_all has listed the comments
C3_Witness ==
    /\ Answered
    /\ response.s # DELETE
    /\ strip(response.s) = DELETE
    /\ Succeeded("list_comments", <<>>)

\* a token file that is missing, not JSON, or JSON that is no object holding refresh_token
Malformed(file) ==
    \/ ~file.exists
    \/ json_load(file.text).exc # "none"
    \/ json_load(file.text).value.ty # "dict"
    \/ \A i \in 1..Len(json_load(file.text).value.members) :
          json_load(file.text).value.members[i][1] # KEY

\* the file this run loaded is the one an earlier run saved lastSaved to
LoadedASavedFile == loaded.called /\ lastSaved # PyNone /\ ~Exchanged

TokenRoundTrip == LoadedASavedFile => (loaded.exc = "none" /\ loaded.value = lastSaved)

(***************************************************************************)
(* C7: _load_refresh_token returns the token _save_refresh_token wrote,    *)
(* and returns None without raising when the file is missing or malformed  *)
(* (not JSON, or JSON that is not an object holding refresh_token).        *)
(***************************************************************************)
C7_TokenStore ==
    /\ TokenRoundTrip
    /\ loaded.called =>
          /\ loaded.exc = "none"
          /\ Malformed(fileAtStart) => loaded.value = PyNone

(***************************************************************************)
(* C9: when the stored refresh token fails validation, the token file is   *)
(* removed and the interactive flow starts in the same run (the listener   *)
(* waits for the callback), and the run is authenticated only through a    *)
(* code exchange; when validation succeeds the interactive flow is never   *)
(* started and the token file is as the run found it.                      *)
(***************************************************************************)
C9_InvalidStoredTokenFallsBack ==
    /\ ValidationFailed =>
        /\ fileAtStart.exists
        /\ pc = "listen" \/ handled = 1
        /\ pc = "listen" => (tokenFile = NoFile /\ exit_code = -1)
        /\ \/ tokenFile = NoFile
           \/ Exchanged /\ tokenFile = _save_refresh_token(refresh_token.s)
        /\ Authenticated => (Exchanged /\ reddit.mode = "oauth")
    /\ ValidationSucceeded =>
        /\ Authenticated
        /\ reddit = [mode |-> "refresh", token |-> loaded.value]
        /\ handled = 0
        /\ pc # "listen"
        /\ ~ExchangeTried
        /\ tokenFile = fileAtStart

\* the stored token was rejected and the run then authenticated through the browser flow
C9_Witness ==
    /\ ValidationFailed
    /\ fileAtStart.exists
    /\ handled = 1
    /\ Authenticated
    /\ pc = "prompt"

(***************************************************************************)
(* C10 as stated: one request is handled; a request carrying error fails   *)
(* with the platform's error string; one carrying neither code nor error   *)
(* fails; one carrying code is exchanged, the token persisted and the      *)
(* state Authenticated; no failing outcome exchanges a code or writes a    *)
(* token.                                                                  *)
(***************************************************************************)
C10_Original ==
    /\ handled <= 1
    /\ handled = 1 =>
        /\ NonBlank("error") # {} =>
              /\ pc = "exit" /\ exit_code = 1
              /\ \E i \in 1..Len(request) :
                    request[i][1] = "error" /\ Contains(error_msg, request[i][2])
              /\ ~ExchangeTried
              /\ FileNotWritten
        /\ (NonBlank("code") = {} /\ NonBlank("error") = {}) =>
              (pc = "exit" /\ exit_code = 1 /\ ~ExchangeTried /\ FileNotWritten)
        /\ NonBlank("code") # {} =>
              \/ pc \in {"exchange", "get_username"}
              \/ Authenticated /\ Exchanged /\ tokenFile = _save_refresh_token(refresh_token.s)
        /\ (pc = "exit" /\ exit_code = 1 /\ ~Authenticated) =>
              (~ExchangeTried /\ FileNotWritten)

(***************************************************************************)
(* C10 amended: the listener handles one request.  If the request has a    *)
(* non-blank code, that code is exchanged whether or not the request also  *)
(* carries error; when the exchange returns, the token is written to the   *)
(* token file, and the state is Authenticated once the identity call that  *)
(* follows returns; when the exchange raises, authenticate fails and no    *)
(* token is written.  Without a non-blank code, authenticate fails with    *)
(* no exchange and no token written: with the first non-blank error in     *)
(* the message if there is one, else with "No authorization code           *)
(* received".                                                              *)
(***************************************************************************)
C10_CallbackOutcome ==
    /\ handled <= 1
    /\ handled = 1 =>
        IF NonBlank("code") # {}
        THEN /\ server = [auth_code |-> PyStr(First("code")), auth_error |-> PyNone]
             /\ pc = "exchange" \/ Count("authorize", First("code")) = 1
             /\ pc = "exchange" => (FileNotWritten /\ ~ExchangeTried)
             /\ Failed("authorize", First("code")) =>
                   (pc = "exit" /\ exit_code = 1 /\ FileNotWritten /\ ~Authenticated)
             /\ Exchanged =>
                   /\ refresh_token.s \in Tokens
                   /\ tokenFile = _save_refresh_token(refresh_token.s)
                   /\ _load_refresh_token(tokenFile) = Returned(refresh_token)
                   /\ \/ pc = "get_username" /\ ~Authenticated
                      \/ Authenticated /\ reddit = [mode |-> "oauth", token |-> refresh_token]
                      \/ /\ pc = "exit" /\ exit_code = 1 /\ ~Authenticated
                         /\ api_calls[Len(api_calls)].op = "me"
                         /\ ~api_calls[Len(api_calls)].ok
             /\ Authenticated => Exchanged
        ELSE /\ pc = "exit" /\ exit_code = 1
             /\ ~ExchangeTried
             /\ FileNotWritten
             /\ ~Authenticated
             /\ error_msg = (IF NonBlank("error") # {}
                             THEN <<"Authentication failed: ">> \o First("error")
                             ELSE <<"No authorization code received">>)

\* the request carried both a code and an error, and the run is authenticated
C10_Witness ==
    /\ handled = 1
    /\ NonBlank("code") # {}
    /\ NonBlank("error") # {}
    /\ Authenticated
    /\ Exchanged

\* main from its start to delete_all's first listing; the token file outlives the run
NextAuth ==
    \/ CheckConfig
    \/ LoadToken
    \/ ValidateToken
    \/ HandleRequest
    \/ ExchangeCode
    \/ GetUsername
    \/ Prompt
    \/ FetchComments
    \/ NewRun

SpecAuth == InitAuth /\ [][NextAuth]_vars

====
